---- MODULE Spec2Model ----
(***************************************************************************)
(* The CSS selector builder of src/06-objects-tasks.js: the Builder class  *)
(* (fragment methods, checkState, stringify), the Combiner and the         *)
(* cssSelectorBuilder facade, as a heap of builder and combiner objects.   *)
(***************************************************************************)
EXTENDS Integers, Sequences, FiniteSets

VARIABLES
  builders,   \* the Builder objects allocated so far; the index is the identity
  combiners,  \* the Combiner objects allocated so far; the index is the identity
  calls,      \* history: calls[i] is the log of the fragment calls made on builder i
  last,       \* the last operation: receiver, arguments, outcome, returned value
  nops        \* the number of mutating operations made so far

vars == <<builders, combiners, calls, last, nops>>

(***************************************************************************)
(* Bounds and input alphabets.                                             *)
(***************************************************************************)
\* fragment calls on the builder of one chain (SpecChain)
MaxCalls == 3
\* mutating operations on the heap of builders and combiners (Spec)
MaxOps == 3

\* the fragment values of a chain; "" is the empty string
Values == {"", "a", "b"}
\* the fragment values of the heap specification
HeapValues == {"a"}
\* the combinator symbols; " " is the descendant combinator
Symbols == {" ", "+"}

(***************************************************************************)
(* Values of the program.                                                  *)
(***************************************************************************)
\* a property never assigned (sElement, sId, sPseudoE after construction)
Undefined == <<>>
\* a property holding the string v
Str(v) == <<v>>
\* JavaScript truthiness of such a property: set, and not the empty string
Truthy(x) == x # Undefined /\ x[1] # ""

Ok == "ok"
DuplicateError == "Element, id and pseudo-element should not occur more then one time inside the selector"
OrderError == "Selector parts should be arranged in the following order: element, id, class, attribute, pseudo-class, pseudo-element"
RangeError == "Maximum call stack size exceeded"

\* references to objects
NoRef == [kind |-> "none", idx |-> 0]
BuilderRef(i) == [kind |-> "builder", idx |-> i]
CombinerRef(j) == [kind |-> "combiner", idx |-> j]
\* what a method returns: `this`, or nothing
This == "this"
Nothing == "undefined"

(***************************************************************************)
(* class Builder                                                           *)
(***************************************************************************)
stateVars ==
  [sElement |-> 0, sId |-> 1, sClass |-> 2, sAttr |-> 3, sPseudo |-> 4, sPseudoE |-> 5]

\* the length of the state array
StateLen == 6

Stages == 0..(StateLen - 1)

\* constructor()
Builder ==
  [sElement |-> Undefined, sId |-> Undefined, sPseudoE |-> Undefined,
   sClass |-> <<>>, sAttr |-> <<>>, sPseudo |-> <<>>,
   state |-> [j \in Stages |-> FALSE]]

\* checkState with the scan stopped after the next stage
checkStateNextOnly(b, i) ==
  [self |-> [b EXCEPT !.state[i] = TRUE],
   threw |-> \E j \in (i + 1)..(i + 1) : j < StateLen /\ b.state[j]]

\* checkState with the scan started at stage i itself
checkStateFromSelf(b, i) ==
  LET marked == [b EXCEPT !.state[i] = TRUE]
  IN  [self |-> marked, threw |-> \E j \in i..(StateLen - 1) : marked.state[j]]

\* checkState with the scan over the earlier stages
checkStateEarlier(b, i) ==
  [self |-> [b EXCEPT !.state[i] = TRUE],
   threw |-> \E j \in 0..(i - 1) : b.state[j]]

\* checkState keeping the mark of the latest stage only
checkStateLatestOnly(b, i) ==
  [self |-> [b EXCEPT !.state = [j \in Stages |-> j = i]],
   threw |-> \E j \in (i + 1)..(StateLen - 1) : b.state[j]]

\* checkState(i): marks stage i, then throws when a later stage is marked
checkState(b, i) ==
  [self |-> [b EXCEPT !.state[i] = TRUE],
   threw |-> \E j \in (i + 1)..(StateLen - 1) : b.state[j]]

\* a fragment method whose `return this` is missing
CheckedNoReturn(b, i) ==
  LET r == checkState(b, i)
  IN  [self |-> r.self,
       outcome |-> IF r.threw THEN OrderError ELSE Ok,
       ret |-> Nothing]

\* the result of a fragment method that ran to its checkState call
Checked(b, i) ==
  LET r == checkState(b, i)
  IN  [self |-> r.self,
       outcome |-> IF r.threw THEN OrderError ELSE Ok,
       ret |-> IF r.threw THEN Nothing ELSE This]

\* the result of a fragment method that threw before changing anything
Thrown(b, e) == [self |-> b, outcome |-> e, ret |-> Nothing]

Builder_element(b, v) ==
  IF Truthy(b.sElement) THEN Thrown(b, DuplicateError)
  ELSE Checked([b EXCEPT !.sElement = Str(v)], stateVars.sElement)

\* id() assigning before its duplicate test
Builder_idOverwrite(b, v) ==
  IF Truthy(b.sId) THEN Thrown([b EXCEPT !.sId = Str(v)], DuplicateError)
  ELSE Checked([b EXCEPT !.sId = Str(v)], stateVars.sId)

Builder_id(b, v) ==
  IF Truthy(b.sId) THEN Thrown(b, DuplicateError)
  ELSE Checked([b EXCEPT !.sId = Str(v)], stateVars.sId)

\* class() keeping one entry for each distinct value
Builder_classOnce(b, v) ==
  Checked(IF \E n \in DOMAIN b.sClass : b.sClass[n] = v THEN b
          ELSE [b EXCEPT !.sClass = Append(@, v)], stateVars.sClass)

Builder_class(b, v) ==
  Checked([b EXCEPT !.sClass = Append(@, v)], stateVars.sClass)

Builder_attr(b, v) ==
  Checked([b EXCEPT !.sAttr = Append(@, v)], stateVars.sAttr)

Builder_pseudoClass(b, v) ==
  Checked([b EXCEPT !.sPseudo = Append(@, v)], stateVars.sPseudo)

Builder_pseudoElement(b, v) ==
  IF Truthy(b.sPseudoE) THEN Thrown(b, DuplicateError)
  ELSE Checked([b EXCEPT !.sPseudoE = Str(v)], stateVars.sPseudoE)

\* the fragment method of stage K
Method(K) ==
  CASE K = 0 -> "element" [] K = 1 -> "id" [] K = 2 -> "class"
    [] K = 3 -> "attr" [] K = 4 -> "pseudoClass" [] K = 5 -> "pseudoElement"

Invoke(b, K, v) ==
  CASE K = 0 -> Builder_element(b, v)
    [] K = 1 -> Builder_id(b, v)
    [] K = 2 -> Builder_class(b, v)
    [] K = 3 -> Builder_attr(b, v)
    [] K = 4 -> Builder_pseudoClass(b, v)
    [] K = 5 -> Builder_pseudoElement(b, v)

\* arr.map((x) => pre + x + post).join('')
RECURSIVE MapJoin(_, _, _)
MapJoin(arr, pre, post) ==
  IF arr = <<>> THEN ""
  ELSE pre \o Head(arr) \o post \o MapJoin(Tail(arr), pre, post)

\* stringify() writing the pseudo-element with one colon
Builder_stringifyOneColon(b) ==
  LET r1 == IF Truthy(b.sElement) THEN b.sElement[1] ELSE ""
      r2 == IF Truthy(b.sId) THEN r1 \o "#" \o b.sId[1] ELSE r1
      r3 == IF Len(b.sClass) > 0 THEN r2 \o MapJoin(b.sClass, ".", "") ELSE r2
      r4 == IF Len(b.sAttr) > 0 THEN r3 \o MapJoin(b.sAttr, "[", "]") ELSE r3
      r5 == IF Len(b.sPseudo) > 0 THEN r4 \o MapJoin(b.sPseudo, ":", "") ELSE r4
      r6 == IF Truthy(b.sPseudoE) THEN r5 \o ":" \o b.sPseudoE[1] ELSE r5
  IN  r6

\* stringify()
Builder_stringify(b) ==
  LET r1 == IF Truthy(b.sElement) THEN b.sElement[1] ELSE ""
      r2 == IF Truthy(b.sId) THEN r1 \o "#" \o b.sId[1] ELSE r1
      r3 == IF Len(b.sClass) > 0 THEN r2 \o MapJoin(b.sClass, ".", "") ELSE r2
      r4 == IF Len(b.sAttr) > 0 THEN r3 \o MapJoin(b.sAttr, "[", "]") ELSE r3
      r5 == IF Len(b.sPseudo) > 0 THEN r4 \o MapJoin(b.sPseudo, ":", "") ELSE r4
      r6 == IF Truthy(b.sPseudoE) THEN r5 \o "::" \o b.sPseudoE[1] ELSE r5
  IN  r6

(***************************************************************************)
(* The initial state: the module is loaded, no object exists.              *)
(***************************************************************************)
NoOp ==
  [op |-> "load", self |-> NoRef, stage |-> -1, v |-> "", outcome |-> Ok,
   ret |-> NoRef, result |-> ""]

Init ==
  /\ builders = <<>>
  /\ combiners = <<>>
  /\ calls = <<>>
  /\ last = NoOp
  /\ nops = 0

\* the log entry of a fragment call
Call(K, v, r) == [stage |-> K, v |-> v, outcome |-> r.outcome]

\* the reference a fragment method called on builder i returns
Returned(i, r) == IF r.ret = This THEN BuilderRef(i) ELSE NoRef

\* a fragment method that leaves its receiver alone and returns a changed copy
BuilderCallCopy(i, K, v) ==
  LET r == Invoke(builders[i], K, v)
      n == Len(builders) + 1
  IN  /\ builders' = Append(builders, r.self)
      /\ calls' = Append(calls, Append(calls[i], Call(K, v, r)))
      /\ last' = [op |-> Method(K), self |-> BuilderRef(i), stage |-> K, v |-> v,
                  outcome |-> r.outcome, ret |-> Returned(n, r), result |-> ""]
      /\ nops' = nops + 1
      /\ UNCHANGED combiners

(***************************************************************************)
(* A fragment method called on the existing builder i.                     *)
(***************************************************************************)
BuilderCall(i, K, v) ==
  LET r == Invoke(builders[i], K, v)
  IN  /\ builders' = [builders EXCEPT ![i] = r.self]
      /\ calls' = [calls EXCEPT ![i] = Append(@, Call(K, v, r))]
      /\ last' = [op |-> Method(K), self |-> BuilderRef(i), stage |-> K, v |-> v,
                  outcome |-> r.outcome, ret |-> Returned(i, r), result |-> ""]
      /\ nops' = nops + 1
      /\ UNCHANGED combiners

\* a facade that keeps one builder and hands out its state
FacadeCallStale(K, v) ==
  LET i == Len(builders) + 1
      r == Invoke(IF builders = <<>> THEN Builder ELSE builders[Len(builders)], K, v)
  IN  /\ builders' = Append(builders, r.self)
      /\ calls' = Append(calls, <<Call(K, v, r)>>)
      /\ last' = [op |-> Method(K), self |-> NoRef, stage |-> K, v |-> v,
                  outcome |-> r.outcome, ret |-> Returned(i, r), result |-> ""]
      /\ nops' = nops + 1
      /\ UNCHANGED combiners

(***************************************************************************)
(* A fragment entry point of the facade: new this.MyBuilder(), then the    *)
(* method on it.  The builder is allocated even when the method throws.    *)
(***************************************************************************)
FacadeCall(K, v) ==
  LET i == Len(builders) + 1
      r == Invoke(Builder, K, v)
  IN  /\ builders' = Append(builders, r.self)
      /\ calls' = Append(calls, <<Call(K, v, r)>>)
      /\ last' = [op |-> Method(K), self |-> NoRef, stage |-> K, v |-> v,
                  outcome |-> r.outcome, ret |-> Returned(i, r), result |-> ""]
      /\ nops' = nops + 1
      /\ UNCHANGED combiners

\* a stringify() that starts the builder over once it has rendered it
StringifyBuilderReset(i) ==
  /\ last' = [op |-> "stringify", self |-> BuilderRef(i), stage |-> -1, v |-> "",
              outcome |-> Ok, ret |-> NoRef, result |-> Builder_stringify(builders[i])]
  /\ builders' = [builders EXCEPT ![i] = Builder]
  /\ UNCHANGED <<combiners, calls, nops>>

(***************************************************************************)
(* stringify() called on builder i.                                        *)
(***************************************************************************)
StringifyBuilder(i) ==
  /\ last' = [op |-> "stringify", self |-> BuilderRef(i), stage |-> -1, v |-> "",
              outcome |-> Ok, ret |-> NoRef, result |-> Builder_stringify(builders[i])]
  /\ UNCHANGED <<builders, combiners, calls, nops>>

(***************************************************************************)
(* One chain: a facade entry point, then fragment methods and stringify    *)
(* on the builder it returned.                                             *)
(***************************************************************************)
ChainStart == \E K \in Stages, v \in Values : builders = <<>> /\ FacadeCall(K, v)

ChainCall ==
  \E K \in Stages, v \in Values :
    /\ builders # <<>>
    /\ Len(calls[1]) < MaxCalls
    /\ BuilderCall(1, K, v)

ChainStringify == builders # <<>> /\ StringifyBuilder(1)

NextChain == ChainStart \/ ChainCall \/ ChainStringify

SpecChain == Init /\ [][NextChain]_vars

(***************************************************************************)
(* function Combiner                                                       *)
(***************************************************************************)
\* new this.MyCombiner(): s1, s2 and combiner are not assigned yet
Combiner == [s1 |-> NoRef, combiner |-> Undefined, s2 |-> NoRef]

\* this.combine = (s1, combiner, s2) => ...
Combiner_combine(c, s1, combiner, s2) ==
  [self |-> [c EXCEPT !.s1 = s1, !.s2 = s2, !.combiner = Str(combiner)],
   outcome |-> Ok, ret |-> This]

\* a stringify that writes the descendant combinator as one space
RECURSIVE StringifyOneSpace(_, _)
StringifyOneSpace(s, depth) ==
  IF s.kind = "builder"
    THEN [outcome |-> Ok, result |-> Builder_stringify(builders[s.idx])]
  ELSE IF depth = 0
    THEN [outcome |-> RangeError, result |-> ""]
  ELSE LET c == combiners[s.idx]
           r1 == StringifyOneSpace(c.s1, depth - 1)
           r2 == StringifyOneSpace(c.s2, depth - 1)
       IN  IF r1.outcome # Ok THEN r1
           ELSE IF r2.outcome # Ok THEN r2
           ELSE [outcome |-> Ok,
                 result |-> IF c.combiner[1] = " "
                              THEN r1.result \o " " \o r2.result
                              ELSE r1.result \o " " \o c.combiner[1] \o " " \o r2.result]

\* s.stringify() for the object s refers to.  Combiner's stringify calls the
\* stringify of s1, then of s2; a structure that contains itself recurses
\* until the call stack is exhausted, which depth reaching 0 stands for: a
\* structure without a cycle nests at most Len(combiners) combiners.
RECURSIVE Stringify(_, _)
Stringify(s, depth) ==
  IF s.kind = "builder"
    THEN [outcome |-> Ok, result |-> Builder_stringify(builders[s.idx])]
  ELSE IF depth = 0
    THEN [outcome |-> RangeError, result |-> ""]
  ELSE LET c == combiners[s.idx]
           r1 == Stringify(c.s1, depth - 1)
           r2 == Stringify(c.s2, depth - 1)
       IN  IF r1.outcome # Ok THEN r1
           ELSE IF r2.outcome # Ok THEN r2
           ELSE [outcome |-> Ok,
                 result |-> r1.result \o " " \o c.combiner[1] \o " " \o r2.result]

Combiner_stringify(j) == Stringify(CombinerRef(j), Len(combiners))

\* the objects a caller can hold a reference to
Refs ==
  {BuilderRef(i) : i \in DOMAIN builders} \cup {CombinerRef(j) : j \in DOMAIN combiners}

(***************************************************************************)
(* cssSelectorBuilder.combine(s1, combiner, s2): a new Combiner, then its  *)
(* combine.                                                                *)
(***************************************************************************)
FacadeCombine(s1, combiner, s2) ==
  LET j == Len(combiners) + 1
      r == Combiner_combine(Combiner, s1, combiner, s2)
  IN  /\ combiners' = Append(combiners, r.self)
      /\ last' = [op |-> "combine", self |-> NoRef, stage |-> -1, v |-> combiner,
                  outcome |-> r.outcome,
                  ret |-> IF r.ret = This THEN CombinerRef(j) ELSE NoRef,
                  result |-> ""]
      /\ nops' = nops + 1
      /\ UNCHANGED <<builders, calls>>

(***************************************************************************)
(* combine(s1, combiner, s2) called on the existing combiner j, which the  *)
(* facade returned: combine is a property of every Combiner.               *)
(***************************************************************************)
CombinerCall(j, s1, combiner, s2) ==
  LET r == Combiner_combine(combiners[j], s1, combiner, s2)
  IN  /\ combiners' = [combiners EXCEPT ![j] = r.self]
      /\ last' = [op |-> "combine", self |-> CombinerRef(j), stage |-> -1,
                  v |-> combiner, outcome |-> r.outcome,
                  ret |-> IF r.ret = This THEN CombinerRef(j) ELSE NoRef,
                  result |-> ""]
      /\ nops' = nops + 1
      /\ UNCHANGED <<builders, calls>>

(***************************************************************************)
(* stringify() called on combiner j.                                       *)
(***************************************************************************)
StringifyCombiner(j) ==
  LET r == Combiner_stringify(j)
  IN  /\ last' = [op |-> "stringify", self |-> CombinerRef(j), stage |-> -1, v |-> "",
                  outcome |-> r.outcome, ret |-> NoRef, result |-> r.result]
      /\ UNCHANGED <<builders, combiners, calls, nops>>

(***************************************************************************)
(* The heap: any number of chains and combinations, interleaved.           *)
(***************************************************************************)
HeapFacade == \E K \in Stages, v \in HeapValues : nops < MaxOps /\ FacadeCall(K, v)

HeapCall ==
  \E i \in DOMAIN builders, K \in Stages, v \in HeapValues :
    nops < MaxOps /\ BuilderCall(i, K, v)

HeapCombine ==
  \E s1 \in Refs, s2 \in Refs, combiner \in Symbols :
    nops < MaxOps /\ FacadeCombine(s1, combiner, s2)

HeapRecombine ==
  \E j \in DOMAIN combiners, s1 \in Refs, s2 \in Refs, combiner \in Symbols :
    nops < MaxOps /\ CombinerCall(j, s1, combiner, s2)

HeapStringifyBuilder == \E i \in DOMAIN builders : StringifyBuilder(i)

HeapStringifyCombiner == \E j \in DOMAIN combiners : StringifyCombiner(j)

Next ==
  \/ HeapFacade
  \/ HeapCall
  \/ HeapCombine
  \/ HeapRecombine
  \/ HeapStringifyBuilder
  \/ HeapStringifyCombiner

Spec == Init /\ [][Next]_vars

(***************************************************************************)
(* Reading the call log of a builder.                                      *)
(***************************************************************************)
\* a call of a later stage than K succeeded before call n of log h
LaterStageAdded(h, n, K) ==
  \E m \in 1..(n - 1) : h[m].outcome = Ok /\ h[m].stage > K

\* before call n of log h, a call of stage K stored a non-empty value
HeldBefore(h, n, K) ==
  \E m \in 1..(n - 1) :
    h[m].stage = K /\ h[m].v # "" /\ h[m].outcome # DuplicateError

\* the stages whose part holds a single value
Single == {stateVars.sElement, stateVars.sId, stateVars.sPseudoE}

NonDecreasing(h) == \A n \in 2..Len(h) : h[n - 1].stage <= h[n].stage

AllOk(h) == \A n \in DOMAIN h : h[n].outcome = Ok

\* at most one call for each single-valued part
SingleOnce(h) ==
  \A m \in DOMAIN h, n \in DOMAIN h :
    (m # n /\ h[m].stage = h[n].stage) => h[m].stage \notin Single

\* the values of the calls of stage K in log h, in call order
RECURSIVE ValuesOf(_, _)
ValuesOf(h, K) ==
  IF h = <<>> THEN <<>>
  ELSE IF Head(h).stage = K THEN <<Head(h).v>> \o ValuesOf(Tail(h), K)
  ELSE ValuesOf(Tail(h), K)

\* the text of one fragment in a selector; an empty element, id or
\* pseudo-element has none
FragmentText(K, v) ==
  CASE K = 0 -> v
    [] K = 1 -> IF v = "" THEN "" ELSE "#" \o v
    [] K = 2 -> "." \o v
    [] K = 3 -> "[" \o v \o "]"
    [] K = 4 -> ":" \o v
    [] K = 5 -> IF v = "" THEN "" ELSE "::" \o v

\* the texts of the fragments of stage K in vs, one after the other
RECURSIVE Texts(_, _)
Texts(K, vs) ==
  IF vs = <<>> THEN "" ELSE Texts(K, SubSeq(vs, 1, Len(vs) - 1)) \o FragmentText(K, vs[Len(vs)])

\* the fragments of log h in the fixed order of the stages
InStageOrder(h) ==
  Texts(0, ValuesOf(h, 0)) \o Texts(1, ValuesOf(h, 1)) \o Texts(2, ValuesOf(h, 2))
    \o Texts(3, ValuesOf(h, 3)) \o Texts(4, ValuesOf(h, 4)) \o Texts(5, ValuesOf(h, 5))

(***************************************************************************)
(* C1                                                                      *)
(***************************************************************************)
\* C1 as stated: a call of stage K made after a fragment of a later stage
\* was added raises the order-violation error.
C1_AlwaysOrderError ==
  \A i \in DOMAIN calls : \A n \in DOMAIN calls[i] :
    LaterStageAdded(calls[i], n, calls[i][n].stage)
      => calls[i][n].outcome = OrderError

\* C1, amended: a call of stage K made after a fragment of a later stage was
\* added always raises an error: the duplicate-fragment error when K is
\* element or id and that part already holds a non-empty value, and the
\* order-violation error otherwise, also when stage K was never touched.
C1_BackwardAlwaysFails ==
  \A i \in DOMAIN calls : \A n \in DOMAIN calls[i] :
    LET h == calls[i]
        K == h[n].stage
    IN  LaterStageAdded(h, n, K)
          => h[n].outcome =
               IF K \in Single /\ HeldBefore(h, n, K) THEN DuplicateError
               ELSE OrderError

\* a call of a stage never touched before, two stages or more behind a
\* fragment added earlier and with the stage right after it untouched,
\* raised the order-violation error
C1_Witness ==
  \E i \in DOMAIN calls : \E n \in DOMAIN calls[i] :
    LET h == calls[i]
    IN  /\ \E m \in 1..(n - 1) : h[m].outcome = Ok /\ h[m].stage > h[n].stage + 1
        /\ \A m \in 1..(n - 1) : h[m].stage # h[n].stage
        /\ h[n].outcome = OrderError
        /\ ~builders[i].state[h[n].stage + 1]

(***************************************************************************)
(* C2                                                                      *)
(***************************************************************************)
\* C2: after an element, an id or a pseudo-element was added, every later
\* call for the same part raises the duplicate-fragment error, whatever the
\* two values and whatever was called in between.
C2_SecondIsDuplicate ==
  \A i \in DOMAIN calls : \A n \in DOMAIN calls[i] : \A m \in 1..(n - 1) :
    LET h == calls[i]
    IN  (h[m].stage \in Single /\ h[m].stage = h[n].stage /\ h[m].outcome = Ok)
          => h[n].outcome = DuplicateError

(***************************************************************************)
(* C3                                                                      *)
(***************************************************************************)
\* C3 as stated: while the calls on a builder are non-decreasing in stage,
\* none raises an error and stringify returns the fragments in stage order.
C3_NonDecreasingRenders ==
  \A i \in DOMAIN calls :
    NonDecreasing(calls[i])
      => /\ AllOk(calls[i])
         /\ Builder_stringify(builders[i]) = InStageOrder(calls[i])

\* C3, amended: while the calls on a builder are non-decreasing in stage and
\* element, id and pseudoElement are each called at most once, no call raises
\* an error and stringify returns the fragments in stage order.
C3_NonDecreasingOnceRenders ==
  \A i \in DOMAIN calls :
    (NonDecreasing(calls[i]) /\ SingleOnce(calls[i]))
      => /\ AllOk(calls[i])
         /\ Builder_stringify(builders[i]) = InStageOrder(calls[i])

\* three calls in non-decreasing order, a stage skipped and a stage repeated
C3_Witness ==
  \E i \in DOMAIN calls :
    LET h == calls[i]
    IN  /\ Len(h) = 3 /\ NonDecreasing(h) /\ SingleOnce(h) /\ AllOk(h)
        /\ h[1].stage = 1 /\ h[2].stage = 4 /\ h[3].stage = 4
        /\ Builder_stringify(builders[i]) = "#a:b:a"

(***************************************************************************)
(* C4                                                                      *)
(***************************************************************************)
\* the text of a single-valued part: nothing while it is not set
OptText(K, x) == IF x = Undefined THEN "" ELSE FragmentText(K, x[1])

\* the text of a fragment when every empty value contributes nothing
NonEmptyText(K, v) == IF v = "" THEN "" ELSE FragmentText(K, v)

RECURSIVE NonEmptyTexts(_, _)
NonEmptyTexts(K, vs) ==
  IF vs = <<>> THEN ""
  ELSE NonEmptyTexts(K, SubSeq(vs, 1, Len(vs) - 1)) \o NonEmptyText(K, vs[Len(vs)])

\* C4 as stated: stringify is element, '#'+id, '.'+class..., '['+attr+']'...,
\* ':'+pseudo-class..., '::'+pseudo-element, where every absent part and
\* every empty-string value contributes nothing.
C4_EmptyValuesContributeNothing ==
  \A i \in DOMAIN builders :
    LET b == builders[i]
    IN  Builder_stringify(b) =
          OptText(0, b.sElement) \o OptText(1, b.sId)
            \o NonEmptyTexts(2, b.sClass) \o NonEmptyTexts(3, b.sAttr)
            \o NonEmptyTexts(4, b.sPseudo) \o OptText(5, b.sPseudoE)

\* C4, amended: stringify is element, '#'+id, '.'+class..., '['+attr+']'...,
\* ':'+pseudo-class..., '::'+pseudo-element, where an absent part, an empty
\* list and an empty-string element, id or pseudo-element contribute nothing,
\* while an empty-string class, attribute or pseudo-class still contributes
\* its prefix or brackets.
C4_RenderFormat ==
  \A i \in DOMAIN builders :
    LET b == builders[i]
    IN  Builder_stringify(b) =
          OptText(0, b.sElement) \o OptText(1, b.sId)
            \o Texts(2, b.sClass) \o Texts(3, b.sAttr)
            \o Texts(4, b.sPseudo) \o OptText(5, b.sPseudoE)

\* an empty id beside an empty and a non-empty attribute
C4_Witness ==
  \E i \in DOMAIN builders :
    /\ builders[i].sId = Str("")
    /\ builders[i].sAttr = <<"", "a">>
    /\ Builder_stringify(builders[i]) = "[][a]"

(***************************************************************************)
(* C6                                                                      *)
(***************************************************************************)
\* C6: the classes, attributes and pseudo-classes stringify lists are the
\* values of the class, attr and pseudoClass calls made on the builder, one
\* entry for each call and in the order of the calls.
C6_InsertionOrderKept ==
  \A i \in DOMAIN builders :
    LET b == builders[i]
        h == calls[i]
    IN  /\ b.sClass = ValuesOf(h, stateVars.sClass)
        /\ b.sAttr = ValuesOf(h, stateVars.sAttr)
        /\ b.sPseudo = ValuesOf(h, stateVars.sPseudo)
        /\ Builder_stringify(b) =
             OptText(0, b.sElement) \o OptText(1, b.sId)
               \o Texts(2, ValuesOf(h, 2)) \o Texts(3, ValuesOf(h, 3))
               \o Texts(4, ValuesOf(h, 4)) \o OptText(5, b.sPseudoE)

\* a value added twice around another one appears twice, in call order
C6_Witness ==
  \E i \in DOMAIN builders :
    /\ ValuesOf(calls[i], stateVars.sClass) = <<"b", "a", "b">>
    /\ AllOk(calls[i])
    /\ Builder_stringify(builders[i]) = ".b.a.b"

(***************************************************************************)
(* C9                                                                      *)
(***************************************************************************)
FragmentMethods == {Method(K) : K \in Stages}

\* builder b holds v as its fragment of stage K, the last one for a list
Stored(b, K, v) ==
  CASE K = 0 -> b.sElement = Str(v)
    [] K = 1 -> b.sId = Str(v)
    [] K = 2 -> b.sClass # <<>> /\ b.sClass[Len(b.sClass)] = v
    [] K = 3 -> b.sAttr # <<>> /\ b.sAttr[Len(b.sAttr)] = v
    [] K = 4 -> b.sPseudo # <<>> /\ b.sPseudo[Len(b.sPseudo)] = v
    [] K = 5 -> b.sPseudoE = Str(v)

\* C9: a fragment method that completes without error returns the builder it
\* was called on, and that builder holds the fragment just added.
C9_ReturnsSameBuilder ==
  (last.op \in FragmentMethods /\ last.self # NoRef /\ last.outcome = Ok)
    => /\ last.ret = last.self
       /\ Stored(builders[last.ret.idx], last.stage, last.v)

\* the third successful call of a chain returned the builder of the first
C9_Witness ==
  /\ last.op \in FragmentMethods /\ last.self = BuilderRef(1) /\ last.outcome = Ok
  /\ last.ret = BuilderRef(1)
  /\ Len(calls[1]) = 3 /\ AllOk(calls[1])
  /\ Builder_stringify(builders[1]) = "a#b.a"

(***************************************************************************)
(* C10                                                                     *)
(***************************************************************************)
\* C10: stringify changes no builder (no fragment, no touched-stage flag);
\* called again right away it returns the same string; and every fragment
\* call has the same outcome after it as before it.
C10_StringifyReadOnly ==
  [][(last'.op = "stringify" /\ last'.self.kind = "builder")
       => /\ builders' = builders
          /\ Builder_stringify(builders'[last'.self.idx]) = last'.result
          /\ (last.op = "stringify" /\ last.self = last'.self)
               => last'.result = last.result
          /\ \A i \in DOMAIN builders : \A K \in Stages, v \in Values :
               Invoke(builders'[i], K, v).outcome = Invoke(builders[i], K, v).outcome]_vars

\* stringify returned on a builder on which a later call fails and one succeeds
C10_Witness ==
  /\ last.op = "stringify" /\ last.self = BuilderRef(1)
  /\ last.result = "#a.b" /\ AllOk(calls[1])
  /\ Invoke(builders[1], 0, "a").outcome = OrderError
  /\ Invoke(builders[1], 1, "b").outcome = DuplicateError
  /\ Invoke(builders[1], 3, "a").outcome = Ok

(***************************************************************************)
(* C5                                                                      *)
(***************************************************************************)
\* the leaves and the symbols of the structure s refers to, from left to
\* right; s contains no cycle
RECURSIVE Tokens(_)
Tokens(s) ==
  IF s.kind = "builder" THEN <<Builder_stringify(builders[s.idx])>>
  ELSE Tokens(combiners[s.idx].s1) \o <<combiners[s.idx].combiner[1]>>
         \o Tokens(combiners[s.idx].s2)

\* the tokens, one space between each two
RECURSIVE JoinSpace(_)
JoinSpace(toks) ==
  IF Len(toks) = 1 THEN toks[1] ELSE toks[1] \o " " \o JoinSpace(Tail(toks))

\* C5: whenever stringify of a combiner returns, it returns
\* s1.stringify() + ' ' + combiner + ' ' + s2.stringify(), and so the leaves
\* and symbols below it from left to right, one space on each side of every
\* symbol, whatever the symbol is.
C5_CombinerRender ==
  \A j \in DOMAIN combiners :
    LET c == combiners[j]
        r == Combiner_stringify(j)
    IN  r.outcome = Ok
          => /\ r.result = Stringify(c.s1, Len(combiners)).result \o " "
                             \o c.combiner[1] \o " "
                             \o Stringify(c.s2, Len(combiners)).result
             /\ r.result = JoinSpace(Tokens(CombinerRef(j)))

\* a combiner over a combiner, joined by the descendant space
C5_Witness ==
  \E j \in DOMAIN combiners :
    /\ combiners[j].s1.kind = "combiner"
    /\ combiners[j].s2.kind = "builder"
    /\ combiners[j].combiner = Str(" ")
    /\ Combiner_stringify(j) = [outcome |-> Ok, result |-> "#a + #a   #a"]

(***************************************************************************)
(* C7                                                                      *)
(***************************************************************************)
\* C7: the builder a facade entry point returns starts fresh: its one call
\* succeeds, only the stage of that call is touched and it renders that one
\* fragment; and a step changes no builder but the one a fragment method was
\* called on.
C7_BuildersIsolated ==
  [][/\ \A i \in DOMAIN builders :
          calls'[i] = calls[i]
            => /\ builders'[i] = builders[i]
               /\ Builder_stringify(builders'[i]) = Builder_stringify(builders[i])
     /\ Len(builders') > Len(builders)
          => LET n == Len(builders')
             IN  /\ n = Len(builders) + 1
                 /\ Len(calls'[n]) = 1
                 /\ calls'[n][1].outcome = Ok
                 /\ \A K \in Stages : builders'[n].state[K] = (K = calls'[n][1].stage)
                 /\ Builder_stringify(builders'[n])
                      = FragmentText(calls'[n][1].stage, calls'[n][1].v)]_vars

\* two builders: a call failed on the first after the second was made, and
\* the second is as its only call left it
C7_Witness ==
  /\ Len(builders) = 2
  /\ last.self = BuilderRef(1) /\ last.outcome = OrderError
  /\ Len(calls[2]) = 1
  /\ Builder_stringify(builders[2]) = ".a"
  /\ Builder_stringify(builders[1]) = "#a::a"

(***************************************************************************)
(* C8                                                                      *)
(***************************************************************************)
\* C8: no operation changes the operands or the symbol of a combiner that
\* combine has returned.
C8_CombinerImmutable ==
  [][\A j \in DOMAIN combiners : combiners'[j] = combiners[j]]_vars

(***************************************************************************)
(* C11                                                                     *)
(***************************************************************************)
\* call m of log h reached the stage check
Reached(h, m) == h[m].outcome # DuplicateError

\* a stage later than K was touched before call n of log h
LaterStageTouched(h, n, K) ==
  \E m \in 1..(n - 1) : Reached(h, m) /\ h[m].stage > K

\* C11: a call of stage K on a builder on which no later stage has been
\* touched never raises the order-violation error, whether it repeats the
\* stage of the call before it or moves to a later stage.
C11_ForwardNeverOrderError ==
  \A i \in DOMAIN calls : \A n \in DOMAIN calls[i] :
    ~LaterStageTouched(calls[i], n, calls[i][n].stage)
      => calls[i][n].outcome # OrderError

\* a stage repeated, then two stages skipped, and every call succeeded
C11_Witness ==
  \E i \in DOMAIN calls :
    LET h == calls[i]
    IN  /\ Len(h) = 3 /\ AllOk(h)
        /\ h[1].stage = 2 /\ h[2].stage = 2 /\ h[3].stage = 5
        /\ builders[i].state = [K \in Stages |-> K \in {2, 5}]

(***************************************************************************)
(* C13                                                                     *)
(***************************************************************************)
\* the highest stage of the calls of log h that reached the stage check,
\* -1 when there is none
RECURSIVE maxStageReached(_)
maxStageReached(h) ==
  IF h = <<>> THEN -1
  ELSE LET rest == maxStageReached(SubSeq(h, 1, Len(h) - 1))
           c == h[Len(h)]
       IN  IF Reached(h, Len(h)) /\ c.stage > rest THEN c.stage ELSE rest

\* C13: after any calls, failed ones included, the stage check for stage K
\* throws exactly when K is below the highest stage that reached the stage
\* check, and every call logged had the outcome that single number gives.
C13_FlagsRefineMaxStage ==
  \A i \in DOMAIN builders :
    /\ \A K \in Stages :
         checkState(builders[i], K).threw <=> K < maxStageReached(calls[i])
    /\ \A n \in DOMAIN calls[i] :
         Reached(calls[i], n)
           => (calls[i][n].outcome = OrderError
                 <=> calls[i][n].stage < maxStageReached(SubSeq(calls[i], 1, n - 1)))

\* flags with gaps after two rejected calls: stages 1, 2 and 4 are touched
C13_Witness ==
  \E i \in DOMAIN builders :
    /\ Len(calls[i]) = 3
    /\ calls[i][1].outcome = Ok
    /\ calls[i][2].outcome = OrderError /\ calls[i][3].outcome = OrderError
    /\ builders[i].state = [K \in Stages |-> K \in {1, 2, 4}]
    /\ checkState(builders[i], 3).threw /\ ~checkState(builders[i], 4).threw

(***************************************************************************)
(* C14                                                                     *)
(***************************************************************************)
\* this step is a fragment method called on the existing builder i
CallStep(i) == i \in DOMAIN calls /\ Len(calls'[i]) = Len(calls[i]) + 1

\* C14: a fragment call that raises the order-violation error leaves the
\* builder as it was, and so what stringify returns.
C14_OrderErrorLeavesBuilder ==
  [][\A i \in DOMAIN builders :
       (CallStep(i) /\ last'.outcome = OrderError)
         => /\ builders'[i] = builders[i]
            /\ Builder_stringify(builders'[i]) = Builder_stringify(builders[i])]_vars

(***************************************************************************)
(* C15                                                                     *)
(***************************************************************************)
\* before call n of log h, a call of stage K stored its value
StoredBefore(h, n, K) == \E m \in 1..(n - 1) : h[m].stage = K /\ Reached(h, m)

\* C15: a call of element, id or pseudoElement whose part already holds a
\* value and which comes after a later stage was touched raises the
\* duplicate-fragment error, not the order-violation error.
C15_DuplicateBeforeOrder ==
  \A i \in DOMAIN calls : \A n \in DOMAIN calls[i] :
    LET h == calls[i]
        K == h[n].stage
    IN  (K \in Single /\ StoredBefore(h, n, K) /\ LaterStageTouched(h, n, K))
          => h[n].outcome = DuplicateError

(***************************************************************************)
(* C16                                                                     *)
(***************************************************************************)
\* C16: no step clears a touched-stage flag, and every fragment call of a
\* stage below one touched earlier on the builder raises an error, whatever
\* was called in between.
C16_RejectionPermanent ==
  [][\A i \in DOMAIN builders :
       /\ \A J \in Stages : builders[i].state[J] => builders'[i].state[J]
       /\ CallStep(i)
            => LET h == calls'[i]
                   n == Len(h)
               IN  /\ LaterStageTouched(h, n, h[n].stage)
                        => h[n].outcome \in {OrderError, DuplicateError}
                   /\ \A m \in 1..(n - 1) :
                        Reached(h, m) => builders'[i].state[h[m].stage]]_vars

\* after stage 5 was touched, element is rejected for its order and, a call
\* later, as a duplicate
C16_Witness ==
  \E i \in DOMAIN calls :
    LET h == calls[i]
    IN  /\ Len(h) = 3
        /\ h[1].stage = 5 /\ h[1].outcome = Ok
        /\ h[2].stage = 0 /\ h[2].outcome = OrderError
        /\ h[3].stage = 0 /\ h[3].outcome = DuplicateError
        /\ builders[i].state[5]

(***************************************************************************)
(* C17                                                                     *)
(***************************************************************************)
\* C17: a call of element, id or pseudoElement that raises the
\* duplicate-fragment error changes nothing of the builder: the stored value
\* stays, no flag changes and stringify returns what it returned before.
C17_DuplicateLeavesBuilder ==
  [][\A i \in DOMAIN builders :
       (CallStep(i) /\ last'.outcome = DuplicateError)
         => /\ last'.stage \in Single
            /\ builders'[i] = builders[i]
            /\ Builder_stringify(builders'[i]) = Builder_stringify(builders[i])]_vars

\* id('b') was rejected as a duplicate and the builder still holds id 'a'
C17_Witness ==
  /\ last.outcome = DuplicateError /\ last.stage = 1 /\ last.v = "b"
  /\ last.self = BuilderRef(1)
  /\ builders[1].sId = Str("a")
  /\ ~builders[1].state[0]
  /\ Builder_stringify(builders[1]) = "#a.a"

(***************************************************************************)
(* C12                                                                     *)
(***************************************************************************)
\* this step is a fragment method called with builder i as its receiver
FragmentStep(i) ==
  /\ last'.op \in FragmentMethods /\ last'.self = BuilderRef(i)
  /\ nops' = nops + 1

\* C12: when a fragment is added to a builder that is an operand of a
\* combiner, stringify of the combiner changes with it: it returns the
\* rendering its operands have now, the new fragment included, not the one
\* they had when combine was called.
C12_RenderFollowsOperands ==
  [][\A i \in DOMAIN builders : \A j \in DOMAIN combiners :
       LET c == combiners[j]
       IN  ( /\ FragmentStep(i) /\ last'.outcome = Ok
             /\ c.s1.kind = "builder" /\ c.s2.kind = "builder"
             /\ i \in {c.s1.idx, c.s2.idx} )
             => /\ Combiner_stringify(j)'.outcome = Ok
                /\ Combiner_stringify(j)'.result # Combiner_stringify(j).result
                /\ Combiner_stringify(j)'.result =
                     Builder_stringify(builders'[c.s1.idx]) \o " " \o c.combiner[1]
                       \o " " \o Builder_stringify(builders'[c.s2.idx])]_vars

\* element, then combine, then id on the operand: the combiner shows the id
C12_Witness ==
  /\ nops = 3 /\ Len(builders) = 1 /\ Len(combiners) = 1
  /\ last.op = "id" /\ last.self = BuilderRef(1) /\ last.outcome = Ok
  /\ calls[1][1].stage = 0
  /\ combiners[1].s1 = BuilderRef(1) /\ combiners[1].s2 = BuilderRef(1)
  /\ Combiner_stringify(1) = [outcome |-> Ok, result |-> "a#a + a#a"]

(***************************************************************************)
(* C18                                                                     *)
(***************************************************************************)
\* the combiners that are operands of combiner j
OperandCombiners(j) ==
  {s.idx : s \in {t \in {combiners[j].s1, combiners[j].s2} : t.kind = "combiner"}}

\* S and the combiners below it, n levels down
RECURSIVE Below(_, _)
Below(S, n) ==
  IF n = 0 THEN S ELSE Below(S \cup UNION {OperandCombiners(k) : k \in S}, n - 1)

\* C18: no combiner is below itself, and stringify of every combiner
\* returns.
C18_CombinersAcyclic ==
  \A j \in DOMAIN combiners :
    /\ j \notin Below(OperandCombiners(j), Len(combiners))
    /\ Combiner_stringify(j).outcome = Ok

====
